---- MODULE Spec2Model ----
(***************************************************************************)
(* Model of src/src/vga_buffer.rs: the VGA text-buffer Writer (cursor      *)
(* column, colour attribute, 25x80 grid of ScreenChar), the shared WRITER  *)
(* behind a spin lock, and the print facade (_print, _print_panic,         *)
(* _print_important).                                                      *)
(***************************************************************************)
EXTENDS Integers, Sequences, FiniteSets, TLC

\* ------------------------------------------------------------------------
\* Program constants
\* ------------------------------------------------------------------------
BUFFER_HEIGHT == 25
BUFFER_WIDTH == 80
INDENT_SIZE == 4

\* enum Color (repr u8): the indices used by the code
Black == 0
LightGrey == 7
LightRed == 12
White == 15

\* byte literals of write_byte / write_string / clear_row
NEWLINE == 10
TAB == 9
SPACE == 32
PRINTABLE_LO == 32
PRINTABLE_HI == 126
PLACEHOLDER == 254

\* ------------------------------------------------------------------------
\* Bounds of the exploration
\* ------------------------------------------------------------------------
\* number of Writer calls explored from the constructed writer
MaxOps == 3

Rows == 0 .. (BUFFER_HEIGHT - 1)
Cols == 0 .. (BUFFER_WIDTH - 1)

\* ------------------------------------------------------------------------
\* ColorCode and ScreenChar
\* ------------------------------------------------------------------------
RECURSIVE BitOr(_, _, _)
BitOr(a, b, bits) ==
    IF bits = 0 THEN 0
    ELSE (IF a % 2 = 1 \/ b % 2 = 1 THEN 1 ELSE 0)
         + 2 * BitOr(a \div 2, b \div 2, bits - 1)

\* variant: the background is shifted by three bits, not four
ColorCodeNew_shift3(foreground, background) ==
    BitOr((background * 8) % 256, foreground, 8)

\* ColorCode((background as u8) << 4 | (foreground as u8))
ColorCodeNew(foreground, background) ==
    BitOr((background * 16) % 256, foreground, 8)

ScreenChar(byte, cc) == [ascii_char |-> byte, color_code |-> cc]

\* ------------------------------------------------------------------------
\* Writer methods as functions on the writer value
\*   w.column_pos, w.color_code, w.buffer : the fields of struct Writer
\*   w.nscroll : number of new_line calls made during the current call
\*   w.cells   : the <<row, col>> indices write_byte has indexed during the
\*               current call, in order
\*   w.oob     : an index was outside the array (Rust panics there)
\* ------------------------------------------------------------------------
\* variant: the blank takes the default attribute, not the writer's
clear_row_default(w, row) ==
    LET blank == ScreenChar(SPACE, ColorCodeNew(LightGrey, Black))
    IN  [w EXCEPT !.buffer[row] = [col \in Cols |-> blank]]

clear_row(w, row) ==
    LET blank == ScreenChar(SPACE, w.color_code)
    IN  [w EXCEPT !.buffer[row] = [col \in Cols |-> blank]]

\* for row in 1..BUFFER_HEIGHT { for col in 0..BUFFER_WIDTH {
\*     chars[row - 1][col] = chars[row][col] } }
\* The loop runs upwards and writes row - 1 only, so the row it reads has not
\* been written yet: every row but the last receives the old content of the
\* row below it, cell by cell, and the last row keeps its content.
copy_rows_up(buf) ==
    [row \in Rows |->
        IF row + 1 < BUFFER_HEIGHT
        THEN [col \in Cols |-> buf[row + 1][col]]
        ELSE buf[row]]

new_line(w) ==
    LET copied == [w EXCEPT !.buffer = copy_rows_up(w.buffer)]
        cleared == clear_row(copied, BUFFER_HEIGHT - 1)
    IN  [cleared EXCEPT !.column_pos = 0, !.nscroll = w.nscroll + 1]

\* variant: the column is rounded up to a tab stop, so a column that is a
\* tab stop already does not move
indent_ceil(w) ==
    [w EXCEPT !.column_pos =
        IF w.column_pos < BUFFER_WIDTH - INDENT_SIZE
        THEN ((w.column_pos + INDENT_SIZE - 1) \div INDENT_SIZE) * INDENT_SIZE
        ELSE BUFFER_WIDTH - 1]

\* variant: the margin test is `<=` where the code has `<`
indent_le(w) ==
    [w EXCEPT !.column_pos =
        IF w.column_pos <= BUFFER_WIDTH - INDENT_SIZE
        THEN ((w.column_pos \div INDENT_SIZE) + 1) * INDENT_SIZE
        ELSE BUFFER_WIDTH - 1]

indent(w) ==
    [w EXCEPT !.column_pos =
        IF w.column_pos < BUFFER_WIDTH - INDENT_SIZE
        THEN ((w.column_pos \div INDENT_SIZE) + 1) * INDENT_SIZE
        ELSE BUFFER_WIDTH - 1]

\* variant: the wrap test is `>` where the code has `>=`
put_byte_gt(w, byte) ==
    LET w1  == IF w.column_pos > BUFFER_WIDTH THEN new_line(w) ELSE w
        row == BUFFER_HEIGHT - 1
        col == w1.column_pos
    IN  IF row \in Rows /\ col \in Cols
        THEN [w1 EXCEPT !.buffer[row][col] = ScreenChar(byte, w1.color_code),
                        !.column_pos = col + 1,
                        !.cells = Append(w1.cells, <<row, col>>)]
        ELSE [w1 EXCEPT !.oob = TRUE,
                        !.cells = Append(w1.cells, <<row, col>>)]

\* variant: the wrap happens one column early
put_byte_early(w, byte) ==
    LET w1  == IF w.column_pos >= BUFFER_WIDTH - 1 THEN new_line(w) ELSE w
        row == BUFFER_HEIGHT - 1
        col == w1.column_pos
    IN  IF row \in Rows /\ col \in Cols
        THEN [w1 EXCEPT !.buffer[row][col] = ScreenChar(byte, w1.color_code),
                        !.column_pos = col + 1,
                        !.cells = Append(w1.cells, <<row, col>>)]
        ELSE [w1 EXCEPT !.oob = TRUE,
                        !.cells = Append(w1.cells, <<row, col>>)]

put_byte(w, byte) ==
    LET w1  == IF w.column_pos >= BUFFER_WIDTH THEN new_line(w) ELSE w
        row == BUFFER_HEIGHT - 1
        col == w1.column_pos
    IN  IF row \in Rows /\ col \in Cols
        THEN [w1 EXCEPT !.buffer[row][col] = ScreenChar(byte, w1.color_code),
                        !.column_pos = col + 1,
                        !.cells = Append(w1.cells, <<row, col>>)]
        ELSE [w1 EXCEPT !.oob = TRUE,
                        !.cells = Append(w1.cells, <<row, col>>)]

\* variant: a newline on an empty line is dropped
write_byte_skip_empty(w, byte) ==
    IF w.oob THEN w
    ELSE IF byte = NEWLINE THEN (IF w.column_pos = 0 THEN w ELSE new_line(w))
    ELSE IF byte = TAB THEN indent(w)
    ELSE put_byte(w, byte)

write_byte(w, byte) ==
    IF w.oob THEN w
    ELSE IF byte = NEWLINE THEN new_line(w)
    ELSE IF byte = TAB THEN indent(w)
    ELSE put_byte(w, byte)

\* variant: the printable range ends at 0x7f
Dispatched_del(byte) ==
    IF (byte >= PRINTABLE_LO /\ byte <= PRINTABLE_HI + 1) \/ byte = NEWLINE \/ byte = TAB
    THEN byte
    ELSE PLACEHOLDER

\* the match of write_string: which byte is handed to write_byte
Dispatched(byte) ==
    IF (byte >= PRINTABLE_LO /\ byte <= PRINTABLE_HI) \/ byte = NEWLINE \/ byte = TAB
    THEN byte
    ELSE PLACEHOLDER

\* for byte in s.bytes() { match byte { .. => self.write_byte(..) } } :
\* the bytes s[lo..hi] are written in input order, and a panic ends the loop
\* (the range is halved so that the evaluation stays shallow; the left half
\* is complete before the first byte of the right half is written)
RECURSIVE write_bytes(_, _, _, _)
write_bytes(w, s, lo, hi) ==
    IF lo > hi THEN w
    ELSE IF lo = hi THEN write_byte(w, Dispatched(s[lo]))
    ELSE LET mid  == (lo + hi) \div 2
             left == write_bytes(w, s, lo, mid)
         IN  IF left.oob THEN left ELSE write_bytes(left, s, mid + 1, hi)

write_string(w, s) == write_bytes(w, s, 1, Len(s))

\* variant: the new attribute is also applied to the cell under the cursor
set_color_cursor(w, cc) ==
    [w EXCEPT !.color_code = cc,
              !.buffer[BUFFER_HEIGHT - 1][w.column_pos % BUFFER_WIDTH].color_code = cc]

set_color(w, cc) == [w EXCEPT !.color_code = cc]

\* fmt::Write for Writer
write_str(w, s) == write_string(w, s)

\* `c as u8` keeps the low eight bits of the scalar value
write_char(w, c) == write_byte(w, c % 256)

\* ------------------------------------------------------------------------
\* State
\* ------------------------------------------------------------------------
VARIABLES
    column_pos,   \* Writer.column_pos
    color_code,   \* Writer.color_code
    buffer,       \* Writer.buffer : chars[row][col]
    oob,          \* an array index was out of range (the program has panicked)
    last,         \* record of the most recent Writer call (observation only)
    nops,         \* number of Writer calls made so far
    line,         \* the text that is written byte by byte (SpecLine)
    lock,         \* spin::Mutex of WRITER: TRUE while a guard is alive
    t,            \* per execution context: its facade call and its position
    log,          \* the character cells stored by facade calls, in order
    mixed         \* cells whose two bytes come from different cell writes

vars == <<column_pos, color_code, buffer, oob, last, nops, line,
          lock, t, log, mixed>>

wvars == <<last, nops, line>>
cvars == <<lock, t, log, mixed>>

\* the execution contexts that call the facade
Ctx == {"main", "irq"}

\* The grid is the memory at 0xb8000: its content at construction is whatever
\* was left there.  Two contents are explored: a blank screen and a screen
\* whose cells differ from row to row and column to column.
BootGrid(k) ==
    [row \in Rows |-> [col \in Cols |->
        IF k = 0 THEN ScreenChar(SPACE, ColorCodeNew(LightGrey, Black))
        ELSE ScreenChar(65 + ((row + col) % 26),
                        ColorCodeNew(1 + (row % 15), Black))]]

BootGrids == {BootGrid(0), BootGrid(1)}

\* lazy_static WRITER / the Writer literal of demo_printing
InitWriter ==
    /\ column_pos = 0
    /\ color_code = ColorCodeNew(LightGrey, Black)
    /\ buffer \in BootGrids

NoCall == [op |-> "none", arg |-> <<>>, col |-> 0, nscroll |-> 0, cells |-> <<>>]

\* a context that makes no facade call
NoTask ==
    [fn |-> "none", text |-> <<>>, sec |-> 1, pc |-> "done", orig_color |-> 0,
     idx |-> 0, row |-> 0, col |-> 0, cell |-> ScreenChar(0, 0),
     after |-> "byte", nw |-> 0, fails |-> FALSE]

FacadeAtRest ==
    /\ lock = FALSE
    /\ t = [c \in Ctx |-> NoTask]
    /\ log = <<>>
    /\ mixed = {}

Init ==
    /\ InitWriter
    /\ oob = FALSE
    /\ last = NoCall
    /\ nops = 0
    /\ line = <<>>
    /\ FacadeAtRest

\* the writer value the next call starts from
Self ==
    [column_pos |-> column_pos, color_code |-> color_code, buffer |-> buffer,
     nscroll |-> 0, cells |-> <<>>, oob |-> FALSE]

Commit(w, op, arg) ==
    /\ column_pos' = w.column_pos
    /\ color_code' = w.color_code
    /\ buffer' = w.buffer
    /\ oob' = w.oob
    /\ last' = [op |-> op, arg |-> arg, col |-> column_pos,
                nscroll |-> w.nscroll, cells |-> w.cells]
    /\ nops' = nops + 1

Rep(byte, n) == [i \in 1 .. n |-> byte]

\* inputs of the calls
ByteInputs == {NEWLINE, TAB, 65, 7}
StringInputs ==
    { <<72, 195, 169>>,
      <<97, TAB, 98, NEWLINE, 99>>,
      Rep(120, BUFFER_WIDTH - 2),
      Rep(121, BUFFER_WIDTH) }
CharInputs == {233, 266}
ColorInputs == {ColorCodeNew(LightRed, Black), ColorCodeNew(White, Black)}

CanCall == ~oob /\ nops < MaxOps

WriteByte ==
    /\ CanCall
    /\ \E byte \in ByteInputs : Commit(write_byte(Self, byte), "write_byte", <<byte>>)
    /\ UNCHANGED <<line, cvars>>

WriteStr ==
    /\ CanCall
    /\ \E s \in StringInputs : Commit(write_str(Self, s), "write_str", s)
    /\ UNCHANGED <<line, cvars>>

WriteChar ==
    /\ CanCall
    /\ \E c \in CharInputs : Commit(write_char(Self, c), "write_char", <<c>>)
    /\ UNCHANGED <<line, cvars>>

SetColor ==
    /\ CanCall
    /\ \E cc \in ColorInputs : Commit(set_color(Self, cc), "set_color", <<cc>>)
    /\ UNCHANGED <<line, cvars>>

Next == WriteByte \/ WriteStr \/ WriteChar \/ SetColor

Spec == Init /\ [][Next]_vars

\* ------------------------------------------------------------------------
\* A line of BUFFER_WIDTH + 1 printable bytes written one write_byte at a
\* time to the constructed writer
\* ------------------------------------------------------------------------
LineText(k) == [i \in 1 .. (BUFFER_WIDTH + 1) |-> 33 + ((i * k) % 94)]

LineTexts == {LineText(1), LineText(7)}

LineInit ==
    /\ InitWriter
    /\ oob = FALSE
    /\ last = NoCall
    /\ nops = 0
    /\ line \in LineTexts
    /\ FacadeAtRest

WriteLineByte ==
    /\ ~oob
    /\ nops < Len(line)
    /\ Commit(write_byte(Self, line[nops + 1]), "write_byte", <<line[nops + 1]>>)
    /\ UNCHANGED <<line, cvars>>

LineNext == WriteLineByte

SpecLine == LineInit /\ [][LineNext]_vars

\* ------------------------------------------------------------------------
\* One call at every column: a prefix of the line is written byte by byte,
\* then one further call is made and the run ends there (the rest of the
\* line is dropped)
\* ------------------------------------------------------------------------
PrintableBytes == PRINTABLE_LO .. PRINTABLE_HI
ColorIndex == 0 .. 15

\* the columns at which every one-byte string is written
StrColumns == {0, 3, BUFFER_WIDTH}

\* the strings written: a &str is UTF-8, so a byte from 0x80 on occurs only
\* inside a sequence of two to four such bytes
Utf8Two == { <<lead, 128 + (lead % 64)>> : lead \in 194 .. 223 } \cup
           { <<195, cont>> : cont \in 128 .. 191 }
Utf8Three == { <<lead, IF lead = 237 THEN 128 ELSE 160, 128>> : lead \in 224 .. 239 }
Utf8Four == { <<lead, IF lead = 244 THEN 128 ELSE 144, 128, 128>> : lead \in 240 .. 244 }

ShortStrings ==
    { <<b>> : b \in 0 .. 127 } \cup Utf8Two \cup Utf8Three \cup Utf8Four \cup
    { <<72, 195, 169>>, <<97, TAB, 98, NEWLINE, 99>>, <<NEWLINE, 200, 128, TAB, 127>> }

ColumnInit == LineInit

ByteAtColumn ==
    /\ ~oob
    /\ line # <<>>
    /\ \E byte \in PrintableBytes \cup {NEWLINE, TAB} :
           Commit(write_byte(Self, byte), "write_byte", <<byte>>)
    /\ line' = <<>>
    /\ UNCHANGED cvars

StrAtColumn ==
    /\ ~oob
    /\ line # <<>>
    /\ column_pos \in StrColumns
    /\ \E s \in ShortStrings : Commit(write_str(Self, s), "write_str", s)
    /\ line' = <<>>
    /\ UNCHANGED cvars

\* writer.set_color(ColorCode::new(foreground, background))
NewColor ==
    /\ ~oob
    /\ line # <<>>
    /\ nops = 0
    /\ \E fg \in ColorIndex : \E bg \in ColorIndex :
           Commit(set_color(Self, ColorCodeNew(fg, bg)), "color_new", <<fg, bg>>)
    /\ line' = <<>>
    /\ UNCHANGED cvars

ColumnNext == WriteLineByte \/ ByteAtColumn \/ StrAtColumn \/ NewColor

SpecColumn == ColumnInit /\ [][ColumnNext]_vars

\* ------------------------------------------------------------------------
\* Properties of the Writer (Spec, SpecLine)
\* ------------------------------------------------------------------------
LastRow == BUFFER_HEIGHT - 1

\* C1: in every state reached by write_byte, write_string and set_color calls
\* the cursor column is in 0..BUFFER_WIDTH, no index was out of range, and
\* every cell write of the latest call went to row BUFFER_HEIGHT-1 at a
\* column strictly below BUFFER_WIDTH.
C1_ColumnAndCellWritesInBounds ==
    /\ column_pos \in 0 .. BUFFER_WIDTH
    /\ ~oob
    /\ \A i \in 1 .. Len(last.cells) :
          /\ last.cells[i][1] = LastRow
          /\ last.cells[i][2] >= 0
          /\ last.cells[i][2] < BUFFER_WIDTH

\* a printable byte was written while the column was BUFFER_WIDTH
C1_Witness ==
    /\ last.op = "write_byte"
    /\ last.col = BUFFER_WIDTH
    /\ last.cells = << <<LastRow, 0>> >>
    /\ column_pos = 1

Representable(byte) ==
    (byte >= PRINTABLE_LO /\ byte <= PRINTABLE_HI) \/ byte = PLACEHOLDER

\* C2: every cell of the grid holds printable ASCII (0x20..0x7E) or the
\* placeholder 0xFE, after any sequence of write_str, write_char and
\* write_byte calls.
C2_OnlyRepresentableGlyphs ==
    \A row \in Rows : \A col \in Cols : Representable(buffer[row][col].ascii_char)

\* C9: a write_byte call that scrolls once moves every row one up; after
\* new_line itself (the newline byte) the last row is blank in the writer's
\* current attribute and the column is 0.
C9_ScrollUp ==
    [][ (last'.op = "write_byte" /\ last'.nscroll = 1)
        => /\ \A row \in 0 .. (BUFFER_HEIGHT - 2) : \A col \in Cols :
                 buffer'[row][col] = buffer[row + 1][col]
           /\ last'.arg = <<NEWLINE>>
                 => /\ \A col \in Cols :
                         buffer'[LastRow][col] = ScreenChar(SPACE, color_code')
                    /\ column_pos' = 0 ]_vars

\* a newline was written with a non-default attribute over a last row that
\* was not blank: the row above the last now holds that text
C9_Witness ==
    /\ last.op = "write_byte"
    /\ last.arg = <<NEWLINE>>
    /\ last.nscroll = 1
    /\ last.col > 0
    /\ color_code # ColorCodeNew(LightGrey, Black)
    /\ \E col \in Cols : buffer[BUFFER_HEIGHT - 2][col] # buffer[LastRow][col]
    /\ \E col \in Cols : buffer[BUFFER_HEIGHT - 3][col] # buffer[BUFFER_HEIGHT - 2][col]

\* C10: of BUFFER_WIDTH+1 printable bytes written from column 0, the first
\* BUFFER_WIDTH cause no scroll and the last causes exactly one; then the
\* column is 1, the last byte is at column 0 of the last row and the first
\* BUFFER_WIDTH bytes are, in order, the row above it.
C10_OneScrollAtLastByte ==
    /\ (nops >= 1 /\ nops <= BUFFER_WIDTH)
          => /\ last.nscroll = 0
             /\ column_pos = nops
    /\ nops = BUFFER_WIDTH + 1
          => /\ last.nscroll = 1
             /\ column_pos = 1
             /\ buffer[LastRow][0] = ScreenChar(line[BUFFER_WIDTH + 1], color_code)
             /\ \A i \in 1 .. BUFFER_WIDTH :
                   buffer[BUFFER_HEIGHT - 2][i - 1] = ScreenChar(line[i], color_code)

C10_Witness ==
    /\ nops = BUFFER_WIDTH + 1
    /\ Len(line) = BUFFER_WIDTH + 1
    /\ last.col = BUFFER_WIDTH
    /\ last.nscroll = 1

\* the step is a write_byte call with this one byte
ByteCall(byte) == last'.op = "write_byte" /\ last'.arg = <<byte>>

\* the step is a write_byte call with a printable byte
PrintableCall == last'.op = "write_byte" /\ last'.arg[1] \in PrintableBytes

\* C11: a write_byte call with a printable byte b made at a column c below
\* BUFFER_WIDTH stores ScreenChar(b, current attribute) at (BUFFER_HEIGHT-1, c),
\* sets the column to c + 1, scrolls nothing, and leaves every other cell and
\* the attribute as they were.
C11_PrintableByteStoresOneCell ==
    [][ (PrintableCall /\ column_pos < BUFFER_WIDTH)
        => /\ buffer' = [buffer EXCEPT ![LastRow][column_pos] =
                            ScreenChar(last'.arg[1], color_code)]
           /\ column_pos' = column_pos + 1
           /\ last'.nscroll = 0
           /\ last'.cells = << <<LastRow, column_pos>> >>
           /\ color_code' = color_code ]_vars

\* a space has been written at the last column below the margin
C11_Witness ==
    /\ last.op = "write_byte"
    /\ last.arg = <<SPACE>>
    /\ last.col = BUFFER_WIDTH - 1
    /\ column_pos = BUFFER_WIDTH
    /\ buffer[LastRow][BUFFER_WIDTH - 1] = ScreenChar(SPACE, color_code)

\* C12: a tab made at a column c below BUFFER_WIDTH - INDENT_SIZE sets the
\* column to the smallest multiple of INDENT_SIZE above c; made at column
\* BUFFER_WIDTH - 2 it sets the column to BUFFER_WIDTH - 1; and at every
\* column it writes no cell, scrolls nothing and keeps the attribute.
C12_TabResultAndFrame ==
    [][ ByteCall(TAB)
        => /\ column_pos < BUFFER_WIDTH - INDENT_SIZE
                => /\ column_pos' % INDENT_SIZE = 0
                   /\ column_pos' > column_pos
                   /\ column_pos' <= column_pos + INDENT_SIZE
           /\ column_pos = BUFFER_WIDTH - 2 => column_pos' = BUFFER_WIDTH - 1
           /\ buffer' = buffer
           /\ last'.cells = <<>>
           /\ last'.nscroll = 0
           /\ color_code' = color_code ]_vars

\* a tab has been made at column BUFFER_WIDTH - 2
C12_Witness ==
    /\ last.op = "write_byte"
    /\ last.arg = <<TAB>>
    /\ last.col = BUFFER_WIDTH - 2
    /\ column_pos = BUFFER_WIDTH - 1

\* the smallest multiple of INDENT_SIZE strictly greater than c
NextTabStop(c) == CHOOSE m \in (c + 1) .. (c + INDENT_SIZE) : m % INDENT_SIZE = 0

\* C13 (as stated): a tab made at a column whose next tab stop is at or
\* beyond BUFFER_WIDTH - INDENT_SIZE sets the column to BUFFER_WIDTH - 1.
C13_ClampWhenNextStopNearMargin ==
    [][ (ByteCall(TAB) /\ NextTabStop(column_pos) >= BUFFER_WIDTH - INDENT_SIZE)
        => column_pos' = BUFFER_WIDTH - 1 ]_vars

\* C13 (amended): a tab made at a column at or beyond BUFFER_WIDTH - INDENT_SIZE
\* sets the column to BUFFER_WIDTH - 1; made at a column below that, it sets
\* the column to the next tab stop, BUFFER_WIDTH - INDENT_SIZE included.
C13_ClampWhenColumnNearMargin ==
    [][ ByteCall(TAB)
        => /\ column_pos >= BUFFER_WIDTH - INDENT_SIZE
                => column_pos' = BUFFER_WIDTH - 1
           /\ column_pos < BUFFER_WIDTH - INDENT_SIZE
                => column_pos' = NextTabStop(column_pos) ]_vars

\* a tab made at column BUFFER_WIDTH - INDENT_SIZE has been clamped
C13_Witness ==
    /\ last.op = "write_byte"
    /\ last.arg = <<TAB>>
    /\ last.col = BUFFER_WIDTH - INDENT_SIZE
    /\ column_pos = BUFFER_WIDTH - 1

\* the byte the claim says write_byte receives for an input byte
Substituted(byte) ==
    IF byte \in PrintableBytes \cup {NEWLINE, TAB} THEN byte ELSE PLACEHOLDER

\* write_byte called once per byte of s from the i-th on, in input order
RECURSIVE WriteEach(_, _, _)
WriteEach(w, s, i) ==
    IF i > Len(s) THEN w
    ELSE WriteEach(write_byte(w, Substituted(s[i])), s, i + 1)

\* no byte of s is a newline, a tab or printable
AllSubstituted(s) == \A i \in 1 .. Len(s) : Substituted(s[i]) # s[i]

\* C14: a write_str call leaves the writer as one write_byte call per input
\* byte does, made in input order, where a byte that is not a newline, not a
\* tab and not in 0x20..0x7E is replaced by 0xFE and every other byte is
\* passed as it is; in particular a string of replaced bytes that fits the
\* line stores 0xFE with the current attribute in the cells from the cursor
\* on, one cell per byte, and advances the column by one per byte.
C14_PlaceholderSubstituted ==
    [][ (last'.op = "write_str" /\ Len(last'.arg) <= 5)
        => LET s == last'.arg
               w == WriteEach(Self, s, 1)
           IN  /\ buffer' = w.buffer
               /\ column_pos' = w.column_pos
               /\ color_code' = w.color_code
               /\ last'.cells = w.cells
               /\ (AllSubstituted(s) /\ column_pos + Len(s) <= BUFFER_WIDTH)
                    => /\ column_pos' = column_pos + Len(s)
                       /\ \A col \in Cols :
                            buffer'[LastRow][col] =
                                IF col >= column_pos /\ col < column_pos + Len(s)
                                THEN ScreenChar(PLACEHOLDER, color_code)
                                ELSE buffer[LastRow][col] ]_vars

\* "H" and the two bytes of U+00E9 have been written from column 3
C14_Witness ==
    /\ last.op = "write_str"
    /\ last.arg = <<72, 195, 169>>
    /\ last.col = 3
    /\ column_pos = 6
    /\ buffer[LastRow][3] = ScreenChar(72, color_code)
    /\ buffer[LastRow][4] = ScreenChar(PLACEHOLDER, color_code)
    /\ buffer[LastRow][5] = ScreenChar(PLACEHOLDER, color_code)

\* C15: a set_color call with attribute a makes a the current attribute and
\* changes neither the column nor any cell; no other call changes the current
\* attribute, so that in every later call a cell stored by write_byte and
\* the blank cells of the last row after a scroll-up carry a, while the cells
\* a scroll-up moves up one row keep their character and their attribute.
C15_SetColorChangesOnlyAttribute ==
    [][ /\ last'.op = "set_color"
            => /\ color_code' = last'.arg[1]
               /\ column_pos' = column_pos
               /\ buffer' = buffer
               /\ last'.cells = <<>>
               /\ last'.nscroll = 0
        /\ last'.op # "set_color" => color_code' = color_code
        /\ (last'.op = "write_byte" /\ last'.arg[1] \notin {NEWLINE, TAB})
            => buffer'[LastRow][column_pos' - 1] = ScreenChar(last'.arg[1], color_code)
        /\ ByteCall(NEWLINE)
            => /\ \A col \in Cols :
                    buffer'[LastRow][col] = ScreenChar(SPACE, color_code)
               /\ \A row \in 0 .. (BUFFER_HEIGHT - 2) : \A col \in Cols :
                    buffer'[row][col] = buffer[row + 1][col] ]_vars

\* "A" was written, then the attribute was set to light red, then a newline
\* was written: the "A" moved up keeps light grey and the new blanks are light red
C15_Witness ==
    /\ nops = 3
    /\ last.op = "write_byte"
    /\ last.arg = <<NEWLINE>>
    /\ color_code = ColorCodeNew(LightRed, Black)
    /\ buffer[BUFFER_HEIGHT - 2][0] = ScreenChar(65, ColorCodeNew(LightGrey, Black))
    /\ buffer[LastRow][0] = ScreenChar(SPACE, ColorCodeNew(LightRed, Black))

\* C16: for every foreground and background index in 0..15 the byte of
\* ColorCode::new(foreground, background) is background * 16 + foreground, at
\* most 255, and no other pair of indices gives the same byte; (4, 0) gives
\* 0x04 and (7, 1) gives 0x17.
C16_ColorCodeIsBgTimes16PlusFg ==
    last.op = "color_new"
    => LET fg == last.arg[1]
           bg == last.arg[2]
       IN  /\ color_code = bg * 16 + fg
           /\ color_code <= 255
           /\ \A fg2 \in ColorIndex : \A bg2 \in ColorIndex :
                ColorCodeNew(fg2, bg2) = color_code => (fg2 = fg /\ bg2 = bg)
           /\ (fg = 4 /\ bg = 0) => color_code = 4
           /\ (fg = 7 /\ bg = 1) => color_code = 23

\* the attribute has been set to ColorCode::new(7, 1)
C16_Witness ==
    /\ last.op = "color_new"
    /\ last.arg = <<7, 1>>
    /\ color_code = 23

\* C17: a write_byte call with a newline makes exactly one scroll-up and
\* leaves the column at 0, whatever the column was; with a printable byte it
\* makes one scroll-up if the column was BUFFER_WIDTH and none otherwise;
\* with a tab it makes none.
C17_ScrollsPerByte ==
    last.op = "write_byte"
    => /\ last.arg = <<NEWLINE>> => (last.nscroll = 1 /\ column_pos = 0)
       /\ last.arg[1] \in PrintableBytes
            => last.nscroll = (IF last.col = BUFFER_WIDTH THEN 1 ELSE 0)
       /\ last.arg = <<TAB>> => last.nscroll = 0

\* a newline has been written on an empty line
C17_Witness ==
    /\ last.op = "write_byte"
    /\ last.arg = <<NEWLINE>>
    /\ last.col = 0
    /\ last.nscroll = 1
    /\ column_pos = 0
    /\ nops = 1

\* C20: a tab never moves the column backwards: the cells of the last row
\* below the column are the ones written since the last scroll-up, so the
\* next printable byte goes to a cell that has not been written since then.
C20_TabNeverMovesBack ==
    [][ ByteCall(TAB) => column_pos' >= column_pos ]_vars

\* ------------------------------------------------------------------------
\* The shared WRITER and the print facade, called from several execution
\* contexts.  A context moves one memory access at a time; a store of a
\* ScreenChar is two byte stores (ascii_char, then color_code).
\*
\*   t[c].fn    the facade function the context calls
\*   t[c].text  the bytes write_fmt hands to write_str
\*   t[c].sec   which `WRITER.lock()...;` statement of the function is next
\*   t[c].pc    "wait" (calling lock()), a position inside the statement,
\*              "done" (returned) or "panicked"
\* ------------------------------------------------------------------------
\* the statements of each function, each with its own WRITER.lock()
Sections(fn) ==
    IF fn = "_print" THEN <<"fmt">>
    ELSE IF fn \in {"_print_panic", "_print_important"}
         THEN <<"orig", "set", "fmt", "restore">>
         ELSE <<>>

\* let panic_color = ColorCode::new(..)
Highlight(fn) ==
    IF fn = "_print_panic" THEN ColorCodeNew(LightRed, Black)
    ELSE ColorCodeNew(White, Black)

Task(fn, text) ==
    [NoTask EXCEPT !.fn = fn, !.text = text, !.pc = "wait"]

Programs(c) ==
    IF c = "main"
    THEN {Task(fn, text) : fn \in {"_print", "_print_panic"},
                           text \in {<<97, 98>>, <<99, NEWLINE>>}}
    ELSE {Task(fn, text) : fn \in {"_print", "_print_important"},
                           text \in {<<120, 121>>}}

FacadeInit ==
    /\ column_pos = 0
    /\ color_code = ColorCodeNew(LightGrey, Black)
    /\ buffer = BootGrid(1)
    /\ oob = FALSE
    /\ last = NoCall
    /\ nops = 0
    /\ line = <<>>
    /\ lock = FALSE
    /\ t \in [Ctx -> UNION {Programs(c) : c \in Ctx}]
    /\ \A c \in Ctx : t[c] \in Programs(c)
    /\ log = <<>>
    /\ mixed = {}

\* spin::Mutex::lock returns once it has changed the flag from false to true
\* variant: the flag is not tested
lock_is_free_unchecked == TRUE

lock_is_free == lock = FALSE

\* the guard is dropped at the end of the statement
Leave(c, rec) ==
    LET n == rec.sec + 1
    IN  [rec EXCEPT !.sec = n,
                    !.pc = IF n > Len(Sections(rec.fn)) THEN "done" ELSE "wait"]

Acquire(c) ==
    /\ t[c].pc = "wait"
    /\ lock_is_free
    /\ lock' = TRUE
    /\ LET name == Sections(t[c].fn)[t[c].sec]
       IN  t' = [t EXCEPT ![c] = [@ EXCEPT !.pc = IF name = "fmt" THEN "byte" ELSE name,
                                            !.idx = 1]]
    /\ UNCHANGED <<column_pos, color_code, buffer, oob, wvars, log, mixed>>

\* let orig_color = WRITER.lock().color_code;
ReadColor(c) ==
    /\ t[c].pc = "orig"
    /\ t' = [t EXCEPT ![c] = Leave(c, [@ EXCEPT !.orig_color = color_code])]
    /\ lock' = FALSE
    /\ UNCHANGED <<column_pos, color_code, buffer, oob, wvars, log, mixed>>

\* WRITER.lock().set_color(panic_color);
SetHighlight(c) ==
    /\ t[c].pc = "set"
    /\ color_code' = set_color(Self, Highlight(t[c].fn)).color_code
    /\ t' = [t EXCEPT ![c] = Leave(c, @)]
    /\ lock' = FALSE
    /\ UNCHANGED <<column_pos, buffer, oob, wvars, log, mixed>>

\* WRITER.lock().set_color(orig_color);
RestoreColor(c) ==
    /\ t[c].pc = "restore"
    /\ color_code' = set_color(Self, t[c].orig_color).color_code
    /\ t' = [t EXCEPT ![c] = Leave(c, @)]
    /\ lock' = FALSE
    /\ UNCHANGED <<column_pos, buffer, oob, wvars, log, mixed>>

\* variant: the guard outlives the statement
FmtDone_guard_kept(c) ==
    /\ t[c].pc = "byte"
    /\ t[c].idx > Len(t[c].text)
    /\ ~t[c].fails
    /\ t' = [t EXCEPT ![c] = Leave(c, @)]
    /\ lock' = lock
    /\ UNCHANGED <<column_pos, color_code, buffer, oob, wvars, log, mixed>>

\* write_fmt has handed over all its bytes: Ok(()), unwrap, guard dropped
FmtDone(c) ==
    /\ t[c].pc = "byte"
    /\ t[c].idx > Len(t[c].text)
    /\ ~t[c].fails
    /\ t' = [t EXCEPT ![c] = Leave(c, @)]
    /\ lock' = FALSE
    /\ UNCHANGED <<column_pos, color_code, buffer, oob, wvars, log, mixed>>

\* write_string's match and write_byte's match for the next byte
Dispatch(c) ==
    /\ t[c].pc = "byte"
    /\ t[c].idx <= Len(t[c].text)
    /\ LET byte == Dispatched(t[c].text[t[c].idx])
       IN  IF byte = TAB
           THEN /\ column_pos' = indent(Self).column_pos
                /\ t' = [t EXCEPT ![c] = [@ EXCEPT !.idx = @ + 1]]
           ELSE /\ column_pos' = column_pos
                /\ t' = [t EXCEPT ![c] =
                         IF byte = NEWLINE
                         THEN [@ EXCEPT !.pc = "nl_copy", !.row = 1, !.col = 0,
                                        !.after = "byte"]
                         ELSE IF column_pos >= BUFFER_WIDTH
                         THEN [@ EXCEPT !.pc = "nl_copy", !.row = 1, !.col = 0,
                                        !.after = "put"]
                         ELSE [@ EXCEPT !.pc = "put"]]
    /\ UNCHANGED <<color_code, buffer, oob, wvars, lock, log, mixed>>

\* the first byte store of cell write number nw of context c at <<row, col>>
StoreChar(c, row, col, byte) ==
    /\ buffer' = [buffer EXCEPT ![row][col].ascii_char = byte]
    /\ mixed' = {m \in mixed : ~(m.row = row /\ m.col = col)}
                 \cup {[row |-> row, col |-> col, by |-> <<c, t[c].nw + 1>>]}

\* its second byte store
StoreAttr(c, row, col, cc) ==
    /\ buffer' = [buffer EXCEPT ![row][col].color_code = cc]
    /\ mixed' =
         IF [row |-> row, col |-> col, by |-> <<c, t[c].nw>>] \in mixed
         THEN mixed \ {[row |-> row, col |-> col, by |-> <<c, t[c].nw>>]}
         ELSE IF \E m \in mixed : m.row = row /\ m.col = col
         THEN mixed
         ELSE mixed \cup {[row |-> row, col |-> col, by |-> <<"other", 0>>]}

\* let col = self.column_pos; chars[row][col].write(ScreenChar{..}) : byte 1
Put(c) ==
    /\ t[c].pc = "put"
    /\ IF column_pos \in Cols
       THEN /\ StoreChar(c, BUFFER_HEIGHT - 1, column_pos,
                          Dispatched(t[c].text[t[c].idx]))
            /\ t' = [t EXCEPT ![c] =
                     [@ EXCEPT !.pc = "put2", !.col = column_pos, !.nw = @ + 1,
                               !.cell = ScreenChar(Dispatched(t[c].text[t[c].idx]),
                                                   color_code)]]
            /\ oob' = oob
       ELSE /\ oob' = TRUE
            /\ t' = [t EXCEPT ![c] = [@ EXCEPT !.pc = "panicked"]]
            /\ UNCHANGED <<buffer, mixed>>
    /\ UNCHANGED <<column_pos, color_code, wvars, lock, log>>

\* byte 2 of the store, then self.column_pos += 1
Put2(c) ==
    /\ t[c].pc = "put2"
    /\ StoreAttr(c, BUFFER_HEIGHT - 1, t[c].col, t[c].cell.color_code)
    /\ column_pos' = column_pos + 1
    /\ log' = Append(log, [ctx |-> c, fn |-> t[c].fn, cell |-> t[c].cell,
                            col |-> t[c].col])
    /\ t' = [t EXCEPT ![c] = [@ EXCEPT !.pc = "byte", !.idx = @ + 1]]
    /\ UNCHANGED <<color_code, oob, wvars, lock>>

\* new_line: let character = chars[row][col].read();
\*           chars[row - 1][col].write(character) : byte 1
NlCopy(c) ==
    /\ t[c].pc = "nl_copy"
    /\ StoreChar(c, t[c].row - 1, t[c].col, buffer[t[c].row][t[c].col].ascii_char)
    /\ t' = [t EXCEPT ![c] = [@ EXCEPT !.pc = "nl_copy2", !.nw = @ + 1,
                                        !.cell = buffer[t[c].row][t[c].col]]]
    /\ UNCHANGED <<column_pos, color_code, oob, wvars, lock, log>>

\* byte 2 of the copy, then the next col / row of the loops; after the last
\* copy clear_row(BUFFER_HEIGHT - 1) builds its blank
NlCopy2(c) ==
    /\ t[c].pc = "nl_copy2"
    /\ StoreAttr(c, t[c].row - 1, t[c].col, t[c].cell.color_code)
    /\ t' = [t EXCEPT ![c] =
             IF t[c].col + 1 < BUFFER_WIDTH
             THEN [@ EXCEPT !.pc = "nl_copy", !.col = @ + 1]
             ELSE IF t[c].row + 1 < BUFFER_HEIGHT
             THEN [@ EXCEPT !.pc = "nl_copy", !.row = @ + 1, !.col = 0]
             ELSE [@ EXCEPT !.pc = "nl_clear", !.row = BUFFER_HEIGHT - 1, !.col = 0,
                            !.cell = ScreenChar(SPACE, color_code)]]
    /\ UNCHANGED <<column_pos, color_code, oob, wvars, lock, log>>

\* clear_row: chars[row][col].write(blank) : byte 1
NlClear(c) ==
    /\ t[c].pc = "nl_clear"
    /\ StoreChar(c, t[c].row, t[c].col, t[c].cell.ascii_char)
    /\ t' = [t EXCEPT ![c] = [@ EXCEPT !.pc = "nl_clear2", !.nw = @ + 1]]
    /\ UNCHANGED <<column_pos, color_code, oob, wvars, lock, log>>

\* byte 2 of the blank, then the next col; after the last one
\* self.column_pos = 0 and new_line returns to write_byte
NlClear2(c) ==
    /\ t[c].pc = "nl_clear2"
    /\ StoreAttr(c, t[c].row, t[c].col, t[c].cell.color_code)
    /\ IF t[c].col + 1 < BUFFER_WIDTH
       THEN /\ t' = [t EXCEPT ![c] = [@ EXCEPT !.pc = "nl_clear", !.col = @ + 1]]
            /\ column_pos' = column_pos
       ELSE /\ t' = [t EXCEPT ![c] =
                     IF t[c].after = "put"
                     THEN [@ EXCEPT !.pc = "put"]
                     ELSE [@ EXCEPT !.pc = "byte", !.idx = @ + 1]]
            /\ column_pos' = 0
    /\ UNCHANGED <<color_code, oob, wvars, lock, log>>

FacadeNext ==
    \E c \in Ctx :
        \/ Acquire(c)
        \/ ReadColor(c)
        \/ SetHighlight(c)
        \/ RestoreColor(c)
        \/ FmtDone(c)
        \/ Dispatch(c)
        \/ Put(c)
        \/ Put2(c)
        \/ NlCopy(c)
        \/ NlCopy2(c)
        \/ NlClear(c)
        \/ NlClear2(c)

SpecFacade == FacadeInit /\ [][FacadeNext]_vars

\* Every context keeps executing: a context that can take a step (a context
\* inside a lock statement always can, a context calling lock() can whenever
\* the flag is false) takes one eventually.
ContextStep(c) ==
    \/ Acquire(c)
    \/ ReadColor(c)
    \/ SetHighlight(c)
    \/ RestoreColor(c)
    \/ FmtDone(c)
    \/ Dispatch(c)
    \/ Put(c)
    \/ Put2(c)
    \/ NlCopy(c)
    \/ NlCopy2(c)
    \/ NlClear(c)
    \/ NlClear2(c)

SpecFacadeFair ==
    FacadeInit /\ [][FacadeNext]_vars /\ \A c \in Ctx : WF_vars(ContextStep(c))

\* ------------------------------------------------------------------------
\* A facade call whose formatted text cannot be produced: after the bytes of
\* t[c].text the formatting of an argument returns Err, write_fmt returns
\* Err and unwrap panics.  The guard is a temporary of the panicking
\* statement.  In a build that aborts on panic (a freestanding kernel, whose
\* panic handler fn(&PanicInfo) -> ! is entered from unwrap and never
\* returns to it) the guard is never dropped; in a build that unwinds, the
\* guard is dropped when the frame of the call is unwound.
\* ------------------------------------------------------------------------
FailInit ==
    /\ column_pos = 0
    /\ color_code = ColorCodeNew(LightGrey, Black)
    /\ buffer = BootGrid(1)
    /\ oob = FALSE
    /\ last = NoCall
    /\ nops = 0
    /\ line = <<>>
    /\ lock = FALSE
    /\ t \in [Ctx -> UNION {Programs(c) : c \in Ctx}
                       \cup {[p EXCEPT !.fails = TRUE] : p \in Programs("main")}]
    /\ \E p \in Programs("main") : t["main"] = [p EXCEPT !.fails = TRUE]
    /\ t["irq"] \in Programs("irq")
    /\ log = <<>>
    /\ mixed = {}

\* write_fmt(args) is Err(fmt::Error); .unwrap() panics
FmtFail(c) ==
    /\ t[c].pc = "byte"
    /\ t[c].idx > Len(t[c].text)
    /\ t[c].fails
    /\ t' = [t EXCEPT ![c] = [@ EXCEPT !.pc = "panicked"]]
    /\ \E unwinds \in BOOLEAN : lock' = IF unwinds THEN FALSE ELSE lock
    /\ UNCHANGED <<column_pos, color_code, buffer, oob, wvars, log, mixed>>

FailNext == FacadeNext \/ \E c \in Ctx : FmtFail(c)

SpecFail == FailInit /\ [][FailNext]_vars

\* ------------------------------------------------------------------------
\* Properties of the facade (SpecFacade)
\* ------------------------------------------------------------------------
DefaultColor == ColorCodeNew(LightGrey, Black)

Highlighted(c) == t[c].fn \in {"_print_panic", "_print_important"}

\* the context has not yet taken the lock for the first time
NotBegun(c) == t[c].sec = 1 /\ t[c].pc = "wait"

Returned(c) == t[c].pc = "done"

\* between the first lock acquisition of the call and its final release
InCall(c) == ~NotBegun(c) /\ ~Returned(c)

\* inside a `WRITER.lock()...;` statement, holding the guard
InSection(c) == t[c].pc \notin {"wait", "done", "panicked"}

\* inside new_line
InScroll(c) == t[c].pc \in {"nl_copy", "nl_copy2", "nl_clear", "nl_clear2"}

\* every step of a context changes its own record, so an unchanged record
\* means the context did nothing in the step
OthersIdle(c) == \A d \in Ctx \ {c} : t'[d] = t[d]

\* C3: from the first lock acquisition of a print_panic / print_important
\* call to its final release no other context performs a Writer operation.
C3_HighlightedCallIsOneCriticalSection ==
    [][ \A c \in Ctx : (Highlighted(c) /\ InCall(c)) => OthersIdle(c) ]_vars

\* C4: whenever no call is in progress the shared writer's attribute is the
\* one it had before the calls.
C4_AttributeRestored ==
    (\A c \in Ctx : NotBegun(c) \/ Returned(c)) => color_code = DefaultColor

\* the attribute a call's text is meant to be rendered in
CallColor(fn) == IF fn = "_print" THEN DefaultColor ELSE Highlight(fn)

\* C5: every character cell stored by a call carries the attribute of that
\* call: error for print_panic, highlight for print_important, the original
\* attribute for print.
C5_CellsCarryCallAttribute ==
    \A i \in 1 .. Len(log) : log[i].cell.color_code = CallColor(log[i].fn)

\* the cell a context is storing between its two byte stores
Storing(c) ==
    IF t[c].pc = "put2" THEN <<BUFFER_HEIGHT - 1, t[c].col>>
    ELSE IF t[c].pc = "nl_copy2" THEN <<t[c].row - 1, t[c].col>>
    ELSE IF t[c].pc = "nl_clear2" THEN <<t[c].row, t[c].col>>
    ELSE <<-1, -1>>

\* C6: at most one context is inside a lock statement, and it is there only
\* while the lock is held; the only cell whose two bytes are not from one
\* cell write is the cell the lock holder is storing at this moment, so no
\* cell is left torn.
C6_NoTornCell ==
    /\ Cardinality({c \in Ctx : InSection(c)}) = (IF lock THEN 1 ELSE 0)
    /\ \A m \in mixed :
          /\ m.by[1] \in Ctx
          /\ InSection(m.by[1])
          /\ t[m.by[1]].nw = m.by[2]
          /\ Storing(m.by[1]) = <<m.row, m.col>>
    /\ ~lock => mixed = {}

\* both contexts have stored cells, one is between the two byte stores of a
\* cell while the other is in the middle of its call, waiting for the lock
C6_Witness ==
    \E c \in Ctx : \E d \in Ctx \ {c} :
        /\ t[c].pc = "put2"
        /\ mixed # {}
        /\ t[d].pc = "wait"
        /\ InCall(d)
        /\ \E i \in 1 .. Len(log) : log[i].ctx = d

\* C7: while a print call is between taking the lock and releasing it no
\* other context does anything; the cells of a print call are consecutive in
\* the order of stores, at consecutive columns and in one attribute.
C7_PrintIsOneRun ==
    /\ [][ \A c \in Ctx : (t[c].fn = "_print" /\ InCall(c)) => OthersIdle(c) ]_vars
    /\ [](\A i \in 1 .. Len(log) : \A j \in 1 .. Len(log) :
            (i < j /\ log[i].ctx = log[j].ctx /\ log[i].fn = "_print")
               => /\ \A k \in i .. j : log[k].ctx = log[i].ctx
                  /\ log[j].col = log[i].col + (j - i)
                  /\ log[j].cell.color_code = log[i].cell.color_code)

\* two print calls have run one after the other, two cells each
C7_Witness ==
    /\ \A c \in Ctx : t[c].fn = "_print" /\ Returned(c)
    /\ Len(log) = 4
    /\ log[1].ctx = log[2].ctx
    /\ log[3].ctx = log[4].ctx
    /\ log[1].ctx # log[3].ctx

\* C8: while a context is inside new_line (from before the first cell copy
\* until the column is reset) no other context does anything, so the grid,
\* the column and the attribute are touched by the scrolling context only.
C8_ScrollIsAtomic ==
    [][ \A c \in Ctx : InScroll(c) => OthersIdle(c) ]_vars

\* a scroll has begun to copy cells while the other context is in the middle
\* of a highlighted call, waiting for the lock
C8_Witness ==
    \E c \in Ctx : \E d \in Ctx \ {c} :
        /\ t[c].pc = "nl_copy2"
        /\ t[c].row = 1
        /\ t[c].col = 5
        /\ t[d].pc = "wait"
        /\ Highlighted(d)
        /\ InCall(d)

\* the call of the context has not returned
Pending(c) == ~Returned(c)

\* the context is calling lock() while the flag is set
Spinning(c) == t[c].pc = "wait" /\ lock = TRUE

C19_LockFreeAfterFailedCall ==
    \A c \in Ctx : t[c].pc = "panicked" => lock = FALSE

====
